---- MODULE Spec2Model ----
(***************************************************************************)
(* A model of pjson (src/src/lib.rs): the callback-driven JSON parser      *)
(* `parse(json, opts, iter)`.  The recognizers are translated function by  *)
(* function into recursive operators; offsets are the 0-based byte offsets *)
(* of the source, bit masks are modelled as sets of flag names (bitwise OR *)
(* is union, AND-test is subset, XOR is symmetric difference).             *)
(***************************************************************************)
EXTENDS Integers, Sequences, FiniteSets, TLC

(* ---- info flags (lib.rs 11-47) and the option flag (lib.rs 49) ---- *)
STRING_ == "STRING"
NUMBER == "NUMBER"
TRUE_ == "TRUE"
FALSE_ == "FALSE"
NULL == "NULL"
OBJECT == "OBJECT"
ARRAY == "ARRAY"
COMMA == "COMMA"
COLON == "COLON"
START == "START"
END == "END"
OPEN == "OPEN"
CLOSE == "CLOSE"
KEY == "KEY"
VALUE == "VALUE"
ESCAPED == "ESCAPED"
SIGN == "SIGN"
DOT == "DOT"
E == "E"
UNCHECKED == "UNCHECKED"

(* ---- byte literals used by the source ---- *)
chTab == 9
chLF == 10
chCR == 13
chSpace == 32
chQuote == 34
chPlus == 43
chComma == 44
chMinus == 45
chDot == 46
chSlash == 47
ch0 == 48
ch1 == 49
ch9 == 57
chColon == 58
chUpA == 65
chUpE == 69
chUpF == 70
chLBracket == 91
chBackslash == 92
chRBracket == 93
chLowA == 97
chLowB == 98
chLowE == 101
chLowF == 102
chLowL == 108
chLowN == 110
chLowR == 114
chLowS == 115
chLowT == 116
chLowU == 117
chLBrace == 123
chRBrace == 125

(* ---- character classification table (lib.rs 133-216) ---- *)
CHWS == "CHWS"
CHNUM == "CHNUM"
CHSTRTOK == "CHSTRTOK"
CHSQUASH == "CHSQUASH"
CHOPEN == "CHOPEN"
CHCLOSE == "CHCLOSE"

CHTABLE ==
  [ch \in 0..255 |->
      (IF ch \in {chTab, chLF, chCR, chSpace} THEN {CHWS} ELSE {})
      \cup (IF ch \in ch0..ch9 THEN {CHNUM} ELSE {})
      \cup (IF ch \in 0..31 \/ ch = chQuote \/ ch = chBackslash THEN {CHSTRTOK} ELSE {})
      \cup (IF ch = chQuote THEN {CHSQUASH} ELSE {})
      \cup (IF ch \in {chLBrace, chLBracket} THEN {CHSQUASH, CHOPEN} ELSE {})
      \cup (IF ch \in {chRBrace, chRBracket} THEN {CHSQUASH, CHCLOSE} ELSE {})]

isws(ch) == CHWS \in CHTABLE[ch]

isnum(ch) == CHNUM \in CHTABLE[ch]

isstrtok(ch) == CHSTRTOK \in CHTABLE[ch]

(* json[i] with the source's 0-based offsets *)
At(json, i) == json[i + 1]

(* ---- keyword scanners (lib.rs 731-756) ---- *)
vtrue(json, i) ==
  IF i + 3 <= Len(json)
     /\ At(json, i) = chLowR /\ At(json, i + 1) = chLowU /\ At(json, i + 2) = chLowE
  THEN [i |-> i + 3, ok |-> TRUE, stop |-> FALSE]
  ELSE [i |-> i, ok |-> FALSE, stop |-> TRUE]

vnull(json, i) ==
  IF i + 3 <= Len(json)
     /\ At(json, i) = chLowU /\ At(json, i + 1) = chLowL /\ At(json, i + 2) = chLowL
  THEN [i |-> i + 3, ok |-> TRUE, stop |-> FALSE]
  ELSE [i |-> i, ok |-> FALSE, stop |-> TRUE]

vfalse(json, i) ==
  IF i + 4 <= Len(json)
     /\ At(json, i) = chLowA /\ At(json, i + 1) = chLowL
     /\ At(json, i + 2) = chLowS /\ At(json, i + 3) = chLowE
  THEN [i |-> i + 4, ok |-> TRUE, stop |-> FALSE]
  ELSE [i |-> i, ok |-> FALSE, stop |-> TRUE]

(* ---- colon and comma search (lib.rs 758-785) ---- *)
RECURSIVE vcolon(_, _)
vcolon(json, i) ==
  IF i < Len(json)
  THEN IF At(json, i) = chColon THEN [i |-> i + 1, ok |-> TRUE, stop |-> FALSE]
       ELSE IF ~isws(At(json, i)) THEN [i |-> i, ok |-> FALSE, stop |-> TRUE]
       ELSE vcolon(json, i + 1)
  ELSE [i |-> i, ok |-> FALSE, stop |-> TRUE]

RECURSIVE vcomma(_, _, _)
vcomma(json, i, end) ==
  IF i < Len(json)
  THEN IF At(json, i) = chComma THEN [i |-> i, ok |-> TRUE, stop |-> FALSE]
       ELSE IF At(json, i) = end THEN [i |-> i, ok |-> TRUE, stop |-> FALSE]
       ELSE IF ~isws(At(json, i)) THEN [i |-> i, ok |-> FALSE, stop |-> TRUE]
       ELSE vcomma(json, i + 1, end)
  ELSE [i |-> i, ok |-> FALSE, stop |-> TRUE]

(* ---- string scanner (lib.rs 579-637) ---- *)
ishex(ch) ==
  \/ (ch >= ch0 /\ ch <= ch9)
  \/ (ch >= chLowA /\ ch <= chLowF)
  \/ (ch >= chUpA /\ ch <= chUpF)

(* a bound check that covers only the first read of a round *)
unrolled8_first(json, i) == i < Len(json)

(* lib.rs 583, 243, 257: the bound check that covers the eight unchecked *)
(* reads of one round of a loop unrolled by eight                         *)
unrolled8(json, i) == i + 8 < Len(json)

(* lib.rs 675: the bound check that covers the four unchecked reads of one *)
(* round of the fraction loop                                              *)
unrolled4(json, i) == i + 4 < Len(json)

(* the 'tok loop: n is the number of iterations left in the unrolled chunk of 8 *)
(* (0 outside the chunk); the chunk reads json[i] without a bounds check        *)
RECURSIVE vstring_tok(_, _, _)
vstring_tok(json, i, n) ==
  IF n > 0
  THEN IF isstrtok(At(json, i)) THEN [found |-> TRUE, i |-> i]
       ELSE vstring_tok(json, i + 1, n - 1)
  ELSE IF unrolled8(json, i) THEN vstring_tok(json, i, 8)
  ELSE IF i < Len(json)
       THEN IF isstrtok(At(json, i)) THEN [found |-> TRUE, i |-> i]
            ELSE vstring_tok(json, i + 1, 0)
       ELSE [found |-> FALSE, i |-> i]

(* the four hex digits after \u: n iterations left, i is the offset before the step *)
RECURSIVE vstring_hex(_, _, _)
vstring_hex(json, i, n) ==
  IF n = 0 THEN [i |-> i, ok |-> TRUE]
  ELSE IF i + 1 = Len(json) THEN [i |-> i + 1, ok |-> FALSE]
  ELSE IF ~ishex(At(json, i + 1)) THEN [i |-> i + 1, ok |-> FALSE]
  ELSE vstring_hex(json, i + 1, n - 1)

RECURSIVE vstring_loop(_, _, _)

(* lib.rs 616-628: h is the outcome of the four hex digits *)
vstring_unicode(json, h, info) ==
  IF h.ok THEN vstring_loop(json, h.i + 1, info)
  ELSE [i |-> h.i, info |-> info, ok |-> FALSE, stop |-> TRUE]

(* an escape that is not known reported at its backslash *)
vstring_escape_back(json, i, info) ==
  IF i = Len(json) THEN [i |-> i, info |-> info, ok |-> FALSE, stop |-> TRUE]
  ELSE IF At(json, i) \in {chQuote, chBackslash, chSlash, chLowB, chLowF, chLowN,
                           chLowR, chLowT}
       THEN vstring_loop(json, i + 1, info)
  ELSE IF At(json, i) = chLowU THEN vstring_unicode(json, vstring_hex(json, i, 4), info)
  ELSE [i |-> i - 1, info |-> info, ok |-> FALSE, stop |-> TRUE]

(* lib.rs 610-633: i is the offset after the backslash *)
vstring_escape(json, i, info) ==
  IF i = Len(json) THEN [i |-> i, info |-> info, ok |-> FALSE, stop |-> TRUE]
  ELSE IF At(json, i) \in {chQuote, chBackslash, chSlash, chLowB, chLowF, chLowN,
                           chLowR, chLowT}
       THEN vstring_loop(json, i + 1, info)
  ELSE IF At(json, i) = chLowU THEN vstring_unicode(json, vstring_hex(json, i, 4), info)
  ELSE [i |-> i, info |-> info, ok |-> FALSE, stop |-> TRUE]

(* a backslash passed without ESCAPED being recorded *)
vstring_at_unescaped(json, t, info) ==
  IF ~t.found THEN [i |-> t.i, info |-> info, ok |-> FALSE, stop |-> TRUE]
  ELSE IF At(json, t.i) = chQuote
       THEN [i |-> t.i + 1, info |-> info, ok |-> TRUE, stop |-> FALSE]
  ELSE IF At(json, t.i) < chSpace
       THEN [i |-> t.i, info |-> info, ok |-> FALSE, stop |-> TRUE]
  ELSE IF At(json, t.i) = chBackslash THEN vstring_escape(json, t.i + 1, info)
  ELSE vstring_loop(json, t.i + 1, info)

(* lib.rs 601-636: t is the outcome of the 'tok loop *)
vstring_at(json, t, info) ==
  IF ~t.found THEN [i |-> t.i, info |-> info, ok |-> FALSE, stop |-> TRUE]
  ELSE IF At(json, t.i) = chQuote
       THEN [i |-> t.i + 1, info |-> info, ok |-> TRUE, stop |-> FALSE]
  ELSE IF At(json, t.i) < chSpace
       THEN [i |-> t.i, info |-> info, ok |-> FALSE, stop |-> TRUE]
  ELSE IF At(json, t.i) = chBackslash
       THEN vstring_escape(json, t.i + 1, info \cup {ESCAPED})
  ELSE vstring_loop(json, t.i + 1, info)

vstring_loop(json, i, info) == vstring_at(json, vstring_tok(json, i, 0), info)

vstring(json, i) == vstring_loop(json, i, {})

(* ---- number scanner (lib.rs 639-729) ---- *)
RECURSIVE vnumber_digits(_, _)
vnumber_digits(json, i) ==
  IF i < Len(json) /\ isnum(At(json, i)) THEN vnumber_digits(json, i + 1) ELSE i

(* the fraction digits: unrolled by 4 (n iterations left), then the scalar tail *)
RECURSIVE vnumber_frac(_, _, _)
vnumber_frac(json, i, n) ==
  IF n > 0
  THEN IF ~isnum(At(json, i)) THEN i ELSE vnumber_frac(json, i + 1, n - 1)
  ELSE IF unrolled4(json, i) THEN vnumber_frac(json, i, 4)
  ELSE IF i < Len(json) /\ isnum(At(json, i)) THEN vnumber_frac(json, i + 1, 0)
  ELSE i

vnumber_exponent(json, i, info) ==
  IF At(json, i) = chLowE \/ At(json, i) = chUpE
  THEN LET info2 == info \cup {E}
           i2 == i + 1
       IN IF i2 = Len(json) THEN [i |-> i2, info |-> info2, ok |-> FALSE, stop |-> TRUE]
          ELSE LET i3 == IF At(json, i2) = chPlus \/ At(json, i2) = chMinus
                         THEN i2 + 1 ELSE i2
               IN IF i3 = Len(json)
                  THEN [i |-> i3, info |-> info2, ok |-> FALSE, stop |-> TRUE]
                  ELSE IF ~isnum(At(json, i3))
                  THEN [i |-> i3, info |-> info2, ok |-> FALSE, stop |-> TRUE]
                  ELSE [i |-> vnumber_digits(json, i3 + 1), info |-> info2,
                        ok |-> TRUE, stop |-> FALSE]
  ELSE [i |-> i, info |-> info, ok |-> TRUE, stop |-> FALSE]

vnumber_base(json, i, info) ==
  IF At(json, i) = chDot
  THEN LET info2 == info \cup {DOT}
           i2 == i + 1
       IN IF i2 = Len(json) THEN [i |-> i2, info |-> info2, ok |-> FALSE, stop |-> TRUE]
          ELSE IF ~isnum(At(json, i2))
          THEN [i |-> i2, info |-> info2, ok |-> FALSE, stop |-> TRUE]
          ELSE LET i3 == vnumber_frac(json, i2 + 1, 0)
               IN IF i3 = Len(json)
                  THEN [i |-> i3, info |-> info2, ok |-> TRUE, stop |-> FALSE]
                  ELSE vnumber_exponent(json, i3, info2)
  ELSE vnumber_exponent(json, i, info)

(* a significand scanner that lets digits follow a leading zero *)
vnumber_significand_lead0(json, i, info) ==
  LET i2 == vnumber_digits(json, i)
  IN IF i2 = Len(json) THEN [i |-> i2, info |-> info, ok |-> TRUE, stop |-> FALSE]
     ELSE vnumber_base(json, i2, info)

vnumber_significand(json, i, info) ==
  LET i2 == IF At(json, i) = ch0 THEN i + 1 ELSE vnumber_digits(json, i)
  IN IF i2 = Len(json) THEN [i |-> i2, info |-> info, ok |-> TRUE, stop |-> FALSE]
     ELSE vnumber_base(json, i2, info)

vnumber(json, i0) ==
  LET i == i0 - 1
  IN IF At(json, i) = chMinus
     THEN IF i + 1 = Len(json) \/ ~isnum(At(json, i + 1))
          THEN [i |-> i + 1, info |-> {SIGN}, ok |-> FALSE, stop |-> TRUE]
          ELSE vnumber_significand(json, i + 1, {SIGN})
     ELSE vnumber_significand(json, i, {})

(* ---- squash (lib.rs 237-311) ---- *)
(* the 'tok loop: scan to the next squash byte, unrolled by 8 then scalar tail *)
RECURSIVE squash_tok(_, _, _)
squash_tok(json, i, n) ==
  IF n > 0
  THEN IF CHSQUASH \in CHTABLE[At(json, i)] THEN [found |-> TRUE, i |-> i]
       ELSE squash_tok(json, i + 1, n - 1)
  ELSE IF unrolled8(json, i) THEN squash_tok(json, i, 8)
  ELSE IF i < Len(json)
       THEN IF CHSQUASH \in CHTABLE[At(json, i)] THEN [found |-> TRUE, i |-> i]
            ELSE squash_tok(json, i + 1, 0)
       ELSE [found |-> FALSE, i |-> i]

(* the 'quote loop: scan to the next double quote *)
RECURSIVE squash_quote(_, _, _)
squash_quote(json, i, n) ==
  IF n > 0
  THEN IF At(json, i) = chQuote THEN [found |-> TRUE, i |-> i]
       ELSE squash_quote(json, i + 1, n - 1)
  ELSE IF unrolled8(json, i) THEN squash_quote(json, i, 8)
  ELSE IF i < Len(json)
       THEN IF At(json, i) = chQuote THEN [found |-> TRUE, i |-> i]
            ELSE squash_quote(json, i + 1, 0)
       ELSE [found |-> FALSE, i |-> i]

(* the backward count of backslashes before json[i-1], down to the string start s *)
RECURSIVE squash_backslashes(_, _, _, _)
squash_backslashes(json, j, s, n) ==
  IF j > s - 1
  THEN IF At(json, j) # chBackslash THEN n
       ELSE squash_backslashes(json, j - 1, s, n + 1)
  ELSE n

RECURSIVE squash_string(_, _, _)

(* a quoted run closed at its first quote, escaped or not *)
squash_quoted_plain(json, q, s) ==
  IF ~q.found THEN [closed |-> FALSE, i |-> q.i] ELSE [closed |-> TRUE, i |-> q.i]

(* lib.rs 282-298: q is the outcome of the 'quote loop in the quoted run from s *)
squash_quoted(json, q, s) ==
  IF ~q.found THEN [closed |-> FALSE, i |-> q.i]
  ELSE IF At(json, q.i - 1) = chBackslash
          /\ squash_backslashes(json, q.i - 2, s, 0) % 2 = 0
       THEN squash_string(json, q.i + 1, s)
  ELSE [closed |-> TRUE, i |-> q.i]

(* the quoted run that starts at s: closed at the first quote that is not escaped *)
squash_string(json, i, s) == squash_quoted(json, squash_quote(json, i, 0), s)

RECURSIVE squash_outer(_, _, _)

(* lib.rs 261-263, 298-299, 308: r is the outcome of the quoted run *)
squash_after(json, r, depth) ==
  IF ~r.closed THEN r.i ELSE squash_outer(json, r.i + 1, depth)

(* opening brackets not counted *)
squash_at_flat(json, t, depth) ==
  IF ~t.found THEN t.i
  ELSE IF At(json, t.i) = chQuote
       THEN squash_after(json, squash_string(json, t.i + 1, t.i + 1), depth)
  ELSE IF CHCLOSE \in CHTABLE[At(json, t.i)]
       THEN IF depth - 1 = 0 THEN t.i + 1 ELSE squash_outer(json, t.i + 1, depth - 1)
  ELSE squash_outer(json, t.i + 1, depth)

(* lib.rs 261-308: t is the outcome of the 'tok loop *)
squash_at(json, t, depth) ==
  IF ~t.found THEN t.i
  ELSE IF At(json, t.i) = chQuote
       THEN squash_after(json, squash_string(json, t.i + 1, t.i + 1), depth)
  ELSE IF CHOPEN \in CHTABLE[At(json, t.i)]
       THEN squash_outer(json, t.i + 1, depth + 1)
  ELSE IF CHCLOSE \in CHTABLE[At(json, t.i)]
       THEN IF depth - 1 = 0 THEN t.i + 1 ELSE squash_outer(json, t.i + 1, depth - 1)
  ELSE squash_outer(json, t.i + 1, depth)

squash_outer(json, i, depth) == squash_at(json, squash_tok(json, i, 0), depth)

squash(json, i) == squash_outer(json, i, 1)

(* ---- the visitor (lib.rs 120-124: iter, an FnMut(start, end, info) -> i64) ---- *)
(* A visitor f answers 0 on its f.stopAt-th call (0: never), -1 on an OPEN  *)
(* callback that starts at an offset in f.skipAt, f.open on any other OPEN   *)
(* callback and f.other on any other callback.  log is the sequence of calls *)
(* made so far, each with the value the visitor returned.                    *)
iter(f, n, start, end, info) ==
  IF n = f.stopAt THEN 0
  ELSE IF OPEN \in info THEN (IF start \in f.skipAt THEN -1 ELSE f.open)
  ELSE f.other

Call(f, log, start, end, info) ==
  LET r == iter(f, Len(log) + 1, start, end, info)
  IN [ret |-> r,
      log |-> Append(log, [start |-> start, end |-> end, info |-> info, ret |-> r])]

(* History only: the trace also records the point where a recognizer gives up *)
(* with (i, false, true), as an entry with info {ERROR} at the error offset i. *)
ERROR == "ERROR"

Raise(log, i) == Append(log, [start |-> i, end |-> i, info |-> {ERROR}, ret |-> 0])

IsCall(c) == ERROR \notin c.info

BitXor(a, b) == (a \ b) \cup (b \ a)

(* `if !skip { if f(start, end, info) == 0 { return ..} }`: the callback, *)
(* or no callback under skip                                              *)
Visit(f, skip, log, start, end, info) ==
  IF ~skip THEN Call(f, log, start, end, info) ELSE [ret |-> 1, log |-> log]

(* ---- any-value, object and array recognizers (lib.rs 313-577) ---- *)
RECURSIVE vany(_, _, _, _, _, _, _)
RECURSIVE vobject(_, _, _, _, _, _)
RECURSIVE vobject_key(_, _, _, _, _, _)
RECURSIVE vobject_next(_, _, _, _, _, _)
RECURSIVE varray(_, _, _, _, _, _)
RECURSIVE varray_elems(_, _, _, _, _, _)

(* a stop reported one byte past the token *)
vany_visited_past(i, c) ==
  IF c.ret = 0 THEN [i |-> i + 1, ok |-> TRUE, stop |-> TRUE, log |-> c.log]
  ELSE [i |-> i, ok |-> TRUE, stop |-> FALSE, log |-> c.log]

(* lib.rs 435-443: c is the outcome of the callback of a scalar ending at i *)
vany_visited(i, c) ==
  IF c.ret = 0 THEN [i |-> i, ok |-> TRUE, stop |-> TRUE, log |-> c.log]
  ELSE [i |-> i, ok |-> TRUE, stop |-> FALSE, log |-> c.log]

(* lib.rs 432-443: r is the outcome of the scanner of a scalar that starts at mark *)
vany_scalar(mark, r, info, dinfo, f, skip, log) ==
  IF r.stop THEN [i |-> r.i, ok |-> r.ok, stop |-> r.stop, log |-> Raise(log, r.i)]
  ELSE vany_visited(r.i, Visit(f, skip, log, mark, r.i,
                               info \cup (IF START \in dinfo THEN dinfo \cup {END}
                                          ELSE dinfo)))

(* the CLOSE callback delivered whatever the outcome of the body *)
vany_close_always(dinfo, f, skip, kind, b) ==
  vany_visited(b.i, Visit(f, skip, b.log, b.i - 1, b.i,
                          {kind, CLOSE}
                          \cup (IF START \in dinfo
                                THEN BitXor(dinfo, {START}) \cup {END}
                                ELSE dinfo)))

(* every CLOSE announced as the CLOSE of an object *)
vany_close_object(dinfo, f, skip, kind, b) ==
  IF b.stop THEN b
  ELSE vany_visited(b.i, Visit(f, skip, b.log, b.i - 1, b.i,
                               {OBJECT, CLOSE}
                               \cup (IF START \in dinfo
                                     THEN BitXor(dinfo, {START}) \cup {END}
                                     ELSE dinfo)))

(* END added on the CLOSE of the document without START being cleared *)
vany_close_start(dinfo, f, skip, kind, b) ==
  IF b.stop THEN b
  ELSE vany_visited(b.i, Visit(f, skip, b.log, b.i - 1, b.i,
                               {kind, CLOSE}
                               \cup (IF START \in dinfo THEN dinfo \cup {END}
                                     ELSE dinfo)))

(* the CLOSE of a container announced without the position flags of its OPEN *)
vany_close_bare(dinfo, f, skip, kind, b) ==
  IF b.stop THEN b
  ELSE vany_visited(b.i, Visit(f, skip, b.log, b.i - 1, b.i,
                               {kind, CLOSE}
                               \cup (IF START \in dinfo THEN {END} ELSE {})))

(* lib.rs 362-371, 394-403: b is the outcome of the body of the container *)
vany_close(dinfo, f, skip, kind, b) ==
  IF b.stop THEN b
  ELSE vany_visited(b.i, Visit(f, skip, b.log, b.i - 1, b.i,
                               {kind, CLOSE}
                               \cup (IF START \in dinfo
                                     THEN BitXor(dinfo, {START}) \cup {END}
                                     ELSE dinfo)))

(* the bracket-counting skip taken whatever the options *)
vany_opened_fast(json, i, opts, dinfo, f, skip, kind, o) ==
  IF o.ret = 0 THEN [i |-> i, ok |-> TRUE, stop |-> TRUE, log |-> o.log]
  ELSE vany_close(dinfo, f, skip, kind,
                  IF skip \/ o.ret = -1
                  THEN [i |-> squash(json, i + 1), ok |-> TRUE, stop |-> FALSE,
                        log |-> o.log]
                  ELSE IF kind = OBJECT
                       THEN vobject(json, i + 1, opts, f, skip \/ o.ret = -1, o.log)
                       ELSE varray(json, i + 1, opts, f, skip \/ o.ret = -1, o.log))

(* the body recognizers entered without the skip that the answer -1 asks for *)
vany_opened_noskip(json, i, opts, dinfo, f, skip, kind, o) ==
  IF o.ret = 0 THEN [i |-> i, ok |-> TRUE, stop |-> TRUE, log |-> o.log]
  ELSE vany_close(dinfo, f, skip, kind,
                  IF UNCHECKED \in opts /\ (skip \/ o.ret = -1)
                  THEN [i |-> squash(json, i + 1), ok |-> TRUE, stop |-> FALSE,
                        log |-> o.log]
                  ELSE IF kind = OBJECT
                       THEN vobject(json, i + 1, opts, f, skip, o.log)
                       ELSE varray(json, i + 1, opts, f, skip, o.log))

(* lib.rs 344-361, 376-393: o is the outcome of the OPEN callback at json[i] *)
vany_opened(json, i, opts, dinfo, f, skip, kind, o) ==
  IF o.ret = 0 THEN [i |-> i, ok |-> TRUE, stop |-> TRUE, log |-> o.log]
  ELSE vany_close(dinfo, f, skip, kind,
                  IF UNCHECKED \in opts /\ (skip \/ o.ret = -1)
                  THEN [i |-> squash(json, i + 1), ok |-> TRUE, stop |-> FALSE,
                        log |-> o.log]
                  ELSE IF kind = OBJECT
                       THEN vobject(json, i + 1, opts, f, skip \/ o.ret = -1, o.log)
                       ELSE varray(json, i + 1, opts, f, skip \/ o.ret = -1, o.log))

(* lib.rs 340-371 (kind = OBJECT) and 372-403 (kind = ARRAY): json[i] is the *)
(* opening bracket                                                           *)
vany_open(json, i, opts, dinfo, f, skip, log, kind) ==
  vany_opened(json, i, opts, dinfo, f, skip, kind,
              Visit(f, skip, log, i, i + 1, {kind, OPEN} \cup dinfo))

(* a string reported without its opening quote *)
vany_string_unquoted(mark, r, dinfo, f, skip, log) ==
  vany_scalar(mark + 1, r, r.info \cup {STRING_}, dinfo, f, skip, log)

(* lib.rs 333-339: a string *)
vany_string(mark, r, dinfo, f, skip, log) ==
  vany_scalar(mark, r, r.info \cup {STRING_}, dinfo, f, skip, log)

(* lib.rs 404-410: a number *)
vany_number(mark, r, dinfo, f, skip, log) ==
  vany_scalar(mark, r, r.info \cup {NUMBER}, dinfo, f, skip, log)

vany(json, i, opts, dinfo, f, skip, log) ==
  IF i < Len(json)
  THEN IF isws(At(json, i)) THEN vany(json, i + 1, opts, dinfo, f, skip, log)
       ELSE IF At(json, i) = chQuote
            THEN vany_string(i, vstring(json, i + 1), dinfo, f, skip, log)
       ELSE IF At(json, i) = chLBrace
            THEN vany_open(json, i, opts, dinfo, f, skip, log, OBJECT)
       ELSE IF At(json, i) = chLBracket
            THEN vany_open(json, i, opts, dinfo, f, skip, log, ARRAY)
       ELSE IF At(json, i) = chMinus \/ isnum(At(json, i))
            THEN vany_number(i, vnumber(json, i + 1), dinfo, f, skip, log)
       ELSE IF At(json, i) = chLowT
            THEN vany_scalar(i, vtrue(json, i + 1), {TRUE_}, dinfo, f, skip, log)
       ELSE IF At(json, i) = chLowN
            THEN vany_scalar(i, vnull(json, i + 1), {NULL}, dinfo, f, skip, log)
       ELSE IF At(json, i) = chLowF
            THEN vany_scalar(i, vfalse(json, i + 1), {FALSE_}, dinfo, f, skip, log)
       ELSE [i |-> i, ok |-> FALSE, stop |-> TRUE, log |-> Raise(log, i)]
  ELSE [i |-> i, ok |-> FALSE, stop |-> TRUE, log |-> Raise(log, i)]

(* a stop on a comma reported after the comma *)
vobject_gotcomma_past(json, i, opts, f, skip, e) ==
  IF e.ret = 0 THEN [i |-> i + 1, ok |-> TRUE, stop |-> TRUE, log |-> e.log]
  ELSE vobject_next(json, i + 1, opts, f, skip, e.log)

(* lib.rs 508-513: e is the outcome of the COMMA callback at json[i] *)
vobject_gotcomma(json, i, opts, f, skip, e) ==
  IF e.ret = 0 THEN [i |-> i, ok |-> TRUE, stop |-> TRUE, log |-> e.log]
  ELSE vobject_next(json, i + 1, opts, f, skip, e.log)

(* lib.rs 498-512: m is the outcome of the search for ',' or '}' *)
vobject_comma(json, opts, f, skip, log, m) ==
  IF m.stop THEN [i |-> m.i, ok |-> m.ok, stop |-> m.stop, log |-> Raise(log, m.i)]
  ELSE IF At(json, m.i) = chRBrace
       THEN [i |-> m.i + 1, ok |-> TRUE, stop |-> FALSE, log |-> log]
  ELSE vobject_gotcomma(json, m.i, opts, f, skip,
                        Visit(f, skip, log, m.i, m.i + 1, {COMMA}))

(* lib.rs 491-498: v is the outcome of the member value *)
vobject_gotvalue(json, opts, f, skip, v) ==
  IF v.stop THEN v
  ELSE vobject_comma(json, opts, f, skip, v.log, vcomma(json, v.i, chRBrace))

(* lib.rs 486-491: d is the outcome of the COLON callback, i the offset after ':' *)
vobject_value(json, i, opts, f, skip, d) ==
  IF d.ret = 0 THEN [i |-> i, ok |-> TRUE, stop |-> TRUE, log |-> d.log]
  ELSE vobject_gotvalue(json, opts, f, skip, vany(json, i, opts, {VALUE}, f, skip, d.log))

(* the colon passed without its callback *)
vobject_gotcolon_silent(json, opts, f, skip, log, c) ==
  IF c.stop THEN [i |-> c.i, ok |-> c.ok, stop |-> c.stop, log |-> Raise(log, c.i)]
  ELSE vobject_value(json, c.i, opts, f, skip, [ret |-> 1, log |-> log])

(* lib.rs 479-490: c is the outcome of the search for ':' *)
vobject_gotcolon(json, opts, f, skip, log, c) ==
  IF c.stop THEN [i |-> c.i, ok |-> c.ok, stop |-> c.stop, log |-> Raise(log, c.i)]
  ELSE vobject_value(json, c.i, opts, f, skip,
                     Visit(f, skip, log, c.i - 1, c.i, {COLON}))

(* lib.rs 474-479: k is the outcome of the KEY callback, i the offset after the key *)
vobject_colon(json, i, opts, f, skip, k) ==
  IF k.ret = 0 THEN [i |-> i, ok |-> TRUE, stop |-> TRUE, log |-> k.log]
  ELSE vobject_gotcolon(json, opts, f, skip, k.log, vcolon(json, i))

(* a key announced as a value as well *)
vobject_gotkey_value(json, mark, opts, f, skip, log, s) ==
  IF s.stop THEN [i |-> s.i, ok |-> s.ok, stop |-> s.stop, log |-> Raise(log, s.i)]
  ELSE vobject_colon(json, s.i, opts, f, skip,
                     Visit(f, skip, log, mark, s.i, s.info \cup {KEY, STRING_, VALUE}))

(* lib.rs 466-478: s is the outcome of the scan of the key that starts at mark *)
vobject_gotkey(json, mark, opts, f, skip, log, s) ==
  IF s.stop THEN [i |-> s.i, ok |-> s.ok, stop |-> s.stop, log |-> Raise(log, s.i)]
  ELSE vobject_colon(json, s.i, opts, f, skip,
                     Visit(f, skip, log, mark, s.i, s.info \cup {KEY, STRING_}))

(* lib.rs 461-525: one pass of the 'key loop, json[i] is the key's opening quote *)
vobject_key(json, i, opts, f, skip, log) ==
  vobject_gotkey(json, i, opts, f, skip, log, vstring(json, i + 1))

(* lib.rs 514-529: after a comma, skip whitespace and require the next key *)
vobject_next(json, i, opts, f, skip, log) ==
  IF i < Len(json)
  THEN IF isws(At(json, i)) THEN vobject_next(json, i + 1, opts, f, skip, log)
       ELSE IF At(json, i) = chQuote THEN vobject_key(json, i, opts, f, skip, log)
       ELSE [i |-> i, ok |-> FALSE, stop |-> TRUE, log |-> Raise(log, i)]
  ELSE [i |-> i, ok |-> FALSE, stop |-> TRUE, log |-> Raise(log, i)]

vobject(json, i, opts, f, skip, log) ==
  IF i < Len(json)
  THEN IF isws(At(json, i)) THEN vobject(json, i + 1, opts, f, skip, log)
       ELSE IF At(json, i) = chRBrace
            THEN [i |-> i + 1, ok |-> TRUE, stop |-> FALSE, log |-> log]
       ELSE IF At(json, i) = chQuote THEN vobject_key(json, i, opts, f, skip, log)
       ELSE [i |-> i, ok |-> FALSE, stop |-> TRUE, log |-> Raise(log, i)]
  ELSE [i |-> i, ok |-> FALSE, stop |-> TRUE, log |-> Raise(log, i)]

(* a negative answer on a COMMA callback taken as a stop *)
varray_gotcomma_neg(json, i, opts, f, skip, e) ==
  IF e.ret <= 0 THEN [i |-> i, ok |-> TRUE, stop |-> TRUE, log |-> e.log]
  ELSE varray_elems(json, i + 1, opts, f, skip, e.log)

(* lib.rs 568-573: e is the outcome of the COMMA callback at json[i] *)
varray_gotcomma(json, i, opts, f, skip, e) ==
  IF e.ret = 0 THEN [i |-> i, ok |-> TRUE, stop |-> TRUE, log |-> e.log]
  ELSE varray_elems(json, i + 1, opts, f, skip, e.log)

(* lib.rs 558-572: m is the outcome of the search for ',' or ']' *)
varray_comma(json, opts, f, skip, log, m) ==
  IF m.stop THEN [i |-> m.i, ok |-> m.ok, stop |-> m.stop, log |-> Raise(log, m.i)]
  ELSE IF At(json, m.i) = chRBracket
       THEN [i |-> m.i + 1, ok |-> TRUE, stop |-> FALSE, log |-> log]
  ELSE varray_gotcomma(json, m.i, opts, f, skip,
                       Visit(f, skip, log, m.i, m.i + 1, {COMMA}))

(* one byte after an element passed without being read *)
varray_gotvalue_gap(json, opts, f, skip, v) ==
  IF v.stop THEN v
  ELSE varray_comma(json, opts, f, skip, v.log, vcomma(json, v.i + 1, chRBracket))

(* lib.rs 551-558: v is the outcome of the element *)
varray_gotvalue(json, opts, f, skip, v) ==
  IF v.stop THEN v
  ELSE varray_comma(json, opts, f, skip, v.log, vcomma(json, v.i, chRBracket))

(* lib.rs 544-574: the element loop of an array *)
varray_elems(json, i, opts, f, skip, log) ==
  IF i < Len(json)
  THEN IF isws(At(json, i)) THEN varray_elems(json, i + 1, opts, f, skip, log)
       ELSE varray_gotvalue(json, opts, f, skip,
                            vany(json, i, opts, {VALUE}, f, skip, log))
  ELSE [i |-> i, ok |-> FALSE, stop |-> TRUE, log |-> Raise(log, i)]

varray(json, i, opts, f, skip, log) ==
  IF i < Len(json)
  THEN IF isws(At(json, i)) THEN varray(json, i + 1, opts, f, skip, log)
       ELSE IF At(json, i) = chRBracket
            THEN [i |-> i + 1, ok |-> TRUE, stop |-> FALSE, log |-> log]
       ELSE varray_elems(json, i, opts, f, skip, log)
  ELSE [i |-> i, ok |-> FALSE, stop |-> TRUE, log |-> Raise(log, i)]

(* ---- document driver and entry point (lib.rs 120-131, 218-234) ---- *)
RECURSIVE vdoc_trailing(_, _, _)
vdoc_trailing(json, i, log) ==
  IF i < Len(json)
  THEN IF isws(At(json, i)) THEN vdoc_trailing(json, i + 1, log)
       ELSE [i |-> i, ok |-> FALSE, stop |-> TRUE, log |-> Raise(log, i)]
  ELSE [i |-> i, ok |-> TRUE, stop |-> FALSE, log |-> log]

(* the bytes after the top-level value not looked at *)
vdoc_after_lax(json, r) == r

(* lib.rs 223-233: r is the outcome of the top-level value *)
vdoc_after(json, r) == IF r.stop THEN r ELSE vdoc_trailing(json, r.i, r.log)

vdoc(json, i, opts, f, skip, log) ==
  vdoc_after(json, vany(json, i, opts, {START}, f, skip, log))

(* lib.rs 126-130: r is the outcome of vdoc *)
parse_result(r) ==
  [ret |-> IF ~r.ok THEN r.i * (-1) ELSE r.i,
   calls |-> SelectSeq(r.log, IsCall), trace |-> r.log]

parse(json, opts, f) == parse_result(vdoc(json, 0, opts, f, FALSE, <<>>))

(* ---- the test helper ugly (lib.rs 1304-1333): the minified form ---- *)
RECURSIVE ugly_back(_, _)
ugly_back(src, j) == IF At(src, j) # chBackslash THEN j ELSE ugly_back(src, j - 1)

RECURSIVE ugly_string(_, _, _)
ugly_string(src, i, dst) ==
  IF i < Len(src)
  THEN LET d == Append(dst, At(src, i))
       IN IF At(src, i) = chQuote /\ (i - ugly_back(src, i - 1)) % 2 # 0
          THEN [i |-> i, dst |-> d]
          ELSE ugly_string(src, i + 1, d)
  ELSE [i |-> i, dst |-> dst]

RECURSIVE ugly_loop(_, _, _)
ugly_loop(src, i, dst) ==
  IF i < Len(src)
  THEN IF At(src, i) > chSpace
       THEN LET d == Append(dst, At(src, i))
            IN IF At(src, i) = chQuote
               THEN LET r == ugly_string(src, i + 1, d)
                    IN ugly_loop(src, r.i + 1, r.dst)
               ELSE ugly_loop(src, i + 1, d)
       ELSE ugly_loop(src, i + 1, dst)
  ELSE dst

ugly(src) == ugly_loop(src, 0, <<>>)

(* ---- the program as a state machine: calls of parse on one input ---- *)
(* bytes, options, visitor: the arguments of the call; ret: the value it   *)
(* returned; calls: the callbacks it delivered, in order, each with the    *)
(* visitor's answer; trace: calls plus the point of the error, if any.     *)
VARIABLES bytes, options, visitor, pc, ret, calls, trace

vars == <<bytes, options, visitor, pc, ret, calls, trace>>

(* ---- bounded inputs: concatenations of at most n fragments of a set F ---- *)
RECURSIVE Flatten(_)
Flatten(s) == IF s = <<>> THEN <<>> ELSE Head(s) \o Flatten(Tail(s))

(* bytes is the concatenation of at most m.n fragments of m.f, for a family m of Fams *)
Drawn(Fams) ==
  \E m \in Fams : \E k \in 0..m.n : \E s \in [1..k -> m.f] : bytes = Flatten(s)

MaxDoc == 4
MaxArr == 5
MaxEsc == 5
MaxObj == 5
MaxStruct == 5
MaxNum == 5
MaxStr == 5
MaxKw == 4
MaxLong == 5
MaxFrac == 5

(* documents: brackets, commas, a number, a key with its colon *)
DocFrags ==
  {<<chLBracket>>, <<chRBracket>>, <<chLBrace>>, <<chRBrace>>, <<chComma>>, <<ch0>>,
   <<chQuote, chQuote, chColon>>}

(* arrays with siblings, and a number long enough for the unrolled scans *)
ArrFrags ==
  {<<chLBracket>>, <<chRBracket>>, <<ch0>>, <<chComma, ch0>>,
   <<ch1, ch1, ch1, ch1, ch1, ch1, ch1, ch1, ch1>>}

(* an array of one string with backslashes, quotes and brackets in it, and *)
(* whitespace after it                                                    *)
EscFrags ==
  {<<chLBracket, chQuote>>, <<chQuote, chRBracket>>, <<chBackslash>>, <<chQuote>>,
   <<chSpace>>}

(* objects with several members *)
ObjFrags ==
  {<<chLBrace>>, <<chRBrace>>, <<chQuote, chQuote, chColon, ch0>>, <<chComma>>}

(* structure with whitespace, explicit colons and empty strings *)
StructFrags ==
  {<<chLBracket>>, <<chRBracket>>, <<chLBrace>>, <<chRBrace>>, <<chComma>>, <<chColon>>,
   <<chSpace>>, <<ch0>>, <<chQuote, chQuote>>}

(* the number grammar *)
NumFrags == {<<chMinus>>, <<ch0>>, <<ch1>>, <<chDot>>, <<chLowE>>, <<chUpE>>, <<chPlus>>}

(* the string grammar: quote, backslash, escapes, a control byte, a space, *)
(* plain bytes, and a brace that makes the string a key                   *)
StrFrags ==
  {<<chQuote>>, <<chBackslash>>, <<chLowU, ch0, chUpF, chLowA>>, <<ch9>>, <<chLBrace>>,
   <<31>>, <<chSpace>>, <<chLowS, chLowS, chLowS, chLowS, chLowS, chLowS, chLowS, chLowS>>}

(* the keywords, whole and truncated *)
KwFrags ==
  {<<chLowT>>, <<chLowR, chLowU>>, <<chLowE>>, <<chLowN>>, <<chLowU, chLowL>>, <<chLowL>>,
   <<chLowF>>, <<chLowA, chLowL, chLowS>>, <<chSpace>>}

(* an array of one string longer than a round of eight reads, with *)
(* backslashes before its quotes                                    *)
LongFrags ==
  {<<chLBracket, chQuote>>, <<chQuote>>, <<chBackslash>>, <<chRBracket>>,
   <<chLowS, chLowS, chLowS, chLowS, chLowS, chLowS, chLowS, chLowS>>}

(* a fraction longer than a round of four reads, bare and in an array *)
FracFrags ==
  {<<chLBracket>>, <<ch0, chDot>>, <<ch1, ch1, ch1>>, <<chLowE>>, <<chRBracket>>}

LongInputs ==
  {[f |-> LongFrags, n |-> MaxLong], [f |-> FracFrags, n |-> MaxFrac]}

VisitInputs ==
  {[f |-> DocFrags, n |-> MaxDoc], [f |-> ArrFrags, n |-> MaxArr],
   [f |-> EscFrags, n |-> MaxEsc], [f |-> ObjFrags, n |-> MaxObj]}

ValidInputs ==
  {[f |-> StructFrags, n |-> MaxStruct], [f |-> NumFrags, n |-> MaxNum],
   [f |-> StrFrags, n |-> MaxStr], [f |-> KwFrags, n |-> MaxKw]}

(* the visitor that always answers 1, and one that answers -1 on every      *)
(* callback without OPEN and 2 on every OPEN it does not skip                *)
Continue == [stopAt |-> 0, skipAt |-> {}, open |-> 1, other |-> 1]

Odd == [stopAt |-> 0, skipAt |-> {}, open |-> 2, other |-> -1]

Init ==
  /\ Drawn(VisitInputs)
  /\ options \in {{}, {UNCHECKED}}
  /\ visitor = Continue
  /\ pc = "ready"
  /\ ret = 0
  /\ calls = <<>>
  /\ trace = <<>>

(* r is what the call parse(bytes, options, f) returned and delivered *)
Done(f, r) ==
  /\ ret' = r.ret
  /\ calls' = r.calls
  /\ trace' = r.trace
  /\ visitor' = f
  /\ pc' = "done"
  /\ UNCHANGED <<bytes, options>>

Run(f) == Done(f, parse(bytes, options, f))

(* the first call, with the initial visitor *)
Parse ==
  /\ pc = "ready"
  /\ Run(visitor)

(* a further call on the same input with a visitor that also answers -1 on *)
(* an OPEN callback seen in the last call                                   *)
ParseSkipping(k) ==
  /\ pc = "done"
  /\ OPEN \in calls[k].info
  /\ calls[k].ret \notin {0, -1}
  /\ Run([visitor EXCEPT !.skipAt = @ \cup {calls[k].start}])

(* a further call on the same input with a visitor that answers 0 on its k-th call *)
ParseStopping(k) ==
  /\ pc = "done"
  /\ visitor.stopAt = 0
  /\ Run([visitor EXCEPT !.stopAt = k])

Next ==
  \/ Parse
  \/ \E k \in 1..Len(calls) : ParseSkipping(k)
  \/ \E k \in 1..Len(calls) : ParseStopping(k)

Spec == Init /\ [][Next]_vars

(* the same calls with a visitor that answers -1 and 2 where Continue answers 1 *)
InitOdd ==
  /\ Drawn(VisitInputs)
  /\ options \in {{}, {UNCHECKED}}
  /\ visitor = Odd
  /\ pc = "ready"
  /\ ret = 0
  /\ calls = <<>>
  /\ trace = <<>>

SpecOdd == InitOdd /\ [][Next]_vars

(* validation only: the test helper testvalid (lib.rs 1114-1117) *)
InitValid ==
  /\ Drawn(ValidInputs)
  /\ options = {}
  /\ visitor = Continue
  /\ pc = "ready"
  /\ ret = 0
  /\ calls = <<>>
  /\ trace = <<>>

NextValid == Parse

SpecValid == InitValid /\ [][NextValid]_vars

(* the calls of Spec, also on inputs that take the scanners through whole *)
(* rounds of their unrolled loops                                         *)
InitLong ==
  /\ Drawn(VisitInputs \cup LongInputs)
  /\ options \in {{}, {UNCHECKED}}
  /\ visitor = Continue
  /\ pc = "ready"
  /\ ret = 0
  /\ calls = <<>>
  /\ trace = <<>>

SpecLong == InitLong /\ [][Next]_vars

(***************************************************************************)
(* The JSON grammar (RFC 8259, no surrogate-pair checking), stated on sets *)
(* of offsets: each operator maps the set P of offsets where a phrase may  *)
(* start to the set of offsets where it may end.                           *)
(***************************************************************************)
Eat(json, P, C) == {p + 1 : p \in {q \in P : q < Len(json) /\ At(json, q) \in C}}

RECURSIVE Many(_, _, _)
Many(json, P, C) ==
  LET N == Eat(json, P, C) \ P IN IF N = {} THEN P ELSE Many(json, P \cup N, C)

RECURSIVE EatWord(_, _, _)
EatWord(json, P, w) ==
  IF w = <<>> THEN P ELSE EatWord(json, Eat(json, P, {Head(w)}), Tail(w))

GWs == {chSpace, chTab, chLF, chCR}

GDigits == ch0..ch9

GHex == GDigits \cup (chLowA..chLowF) \cup (chUpA..chUpF)

GNumber(json, P) ==
  LET sign == P \cup Eat(json, P, {chMinus})
      int == Eat(json, sign, {ch0}) \cup Many(json, Eat(json, sign, ch1..ch9), GDigits)
      frac == int \cup Many(json, Eat(json, Eat(json, int, {chDot}), GDigits), GDigits)
      e == Eat(json, frac, {chLowE, chUpE})
      esign == e \cup Eat(json, e, {chPlus, chMinus})
  IN frac \cup Many(json, Eat(json, esign, GDigits), GDigits)

RECURSIVE GChars(_, _)
GChars(json, S) ==
  LET plain == Eat(json, S, (32..255) \ {chQuote, chBackslash})
      b == Eat(json, S, {chBackslash})
      esc == Eat(json, b, {chQuote, chBackslash, chSlash, chLowB, chLowF, chLowN,
                           chLowR, chLowT})
      u == Eat(json, b, {chLowU})
      uni == Eat(json, Eat(json, Eat(json, Eat(json, u, GHex), GHex), GHex), GHex)
      N == (plain \cup esc \cup uni) \ S
  IN IF N = {} THEN S ELSE GChars(json, S \cup N)

GString(json, P) == Eat(json, GChars(json, Eat(json, P, {chQuote})), {chQuote})

RECURSIVE GValue(_, _)
RECURSIVE GElements(_, _)
RECURSIVE GMembers(_, _)

GElement(json, P) == Many(json, GValue(json, Many(json, P, GWs)), GWs)

GElements(json, P) ==
  IF P = {} THEN {}
  ELSE LET e == GElement(json, P)
       IN Eat(json, e, {chRBracket}) \cup GElements(json, Eat(json, e, {chComma}))

GMembers(json, P) ==
  IF P = {} THEN {}
  ELSE LET k == Many(json, GString(json, Many(json, P, GWs)), GWs)
           v == GElement(json, Eat(json, k, {chColon}))
       IN Eat(json, v, {chRBrace}) \cup GMembers(json, Eat(json, v, {chComma}))

GValue(json, P) ==
  IF P = {} THEN {}
  ELSE LET a == Eat(json, P, {chLBracket})
           o == Eat(json, P, {chLBrace})
       IN GString(json, P) \cup GNumber(json, P)
          \cup EatWord(json, P, <<chLowT, chLowR, chLowU, chLowE>>)
          \cup EatWord(json, P, <<chLowF, chLowA, chLowL, chLowS, chLowE>>)
          \cup EatWord(json, P, <<chLowN, chLowU, chLowL, chLowL>>)
          \cup Eat(json, Many(json, a, GWs), {chRBracket}) \cup GElements(json, a)
          \cup Eat(json, Many(json, o, GWs), {chRBrace}) \cup GMembers(json, o)

WellFormed(json) == Len(json) \in GElement(json, {0})

(* C1: with opts = 0 and a visitor that always answers 1, parse returns *)
(* bytes.len() when the input is a well-formed JSON document and a value *)
(* <= 0 when it is not.                                                   *)
C1_ValidIffLen ==
  (pc = "done" /\ options = {} /\ visitor = Continue)
    => IF WellFormed(bytes) THEN ret = Len(bytes) ELSE ret <= 0

(* a well-formed object with a member has been parsed to its end *)
C1_Witness ==
  /\ pc = "done" /\ options = {} /\ visitor = Continue
  /\ WellFormed(bytes) /\ ret = Len(bytes)
  /\ \E k \in 1..Len(calls) : KEY \in calls[k].info

(* an ill-formed input (a number with a leading zero) has been rejected *)
C1_WitnessRejected ==
  /\ pc = "done" /\ options = {} /\ visitor = Continue
  /\ Len(bytes) >= 2 /\ At(bytes, 0) = ch0 /\ At(bytes, 1) \in GDigits
  /\ ret <= 0

(* ---- what the callbacks of one call cover ---- *)
RECURSIVE Slices(_, _)
Slices(json, log) ==
  IF log = <<>> THEN <<>>
  ELSE SubSeq(json, Head(log).start + 1, Head(log).end) \o Slices(json, Tail(log))

Covering(log, p) == {k \in 1..Len(log) : log[k].start <= p /\ p < log[k].end}

(* C2: for a well-formed input parsed with opts = 0 and a visitor that   *)
(* always answers 1, the concatenation of bytes[start..end] over the     *)
(* callbacks, in call order, is the input without the whitespace outside *)
(* strings (the helper ugly); the ranges come in increasing offset       *)
(* order, every byte is in at most one range, the bytes in no range are  *)
(* whitespace, and a whitespace byte in a range is in a string's range.  *)
C2_Minified ==
  (pc = "done" /\ options = {} /\ visitor = Continue /\ WellFormed(bytes))
    => /\ Slices(bytes, calls) = ugly(bytes)
       /\ \A k \in 1..Len(calls) :
            /\ calls[k].start < calls[k].end /\ calls[k].end <= Len(bytes)
            /\ k < Len(calls) => calls[k].end <= calls[k + 1].start
       /\ \A p \in 0..(Len(bytes) - 1) :
            /\ Cardinality(Covering(calls, p)) <= 1
            /\ Covering(calls, p) = {} => isws(At(bytes, p))
            /\ \A k \in Covering(calls, p) :
                 isws(At(bytes, p)) => STRING_ \in calls[k].info

(* a well-formed container with whitespace between its tokens has been parsed *)
C2_Witness ==
  /\ pc = "done" /\ options = {} /\ visitor = Continue /\ WellFormed(bytes)
  /\ Len(calls) >= 3
  /\ \E p \in 0..(Len(bytes) - 1) : isws(At(bytes, p)) /\ Covering(calls, p) = {}

(* a well-formed string that holds a space has been parsed *)
C2_WitnessString ==
  /\ pc = "done" /\ options = {} /\ visitor = Continue /\ WellFormed(bytes)
  /\ \E p \in 0..(Len(bytes) - 1) : isws(At(bytes, p)) /\ Covering(calls, p) # {}

(* ---- skipped containers ---- *)
(* the callbacks without the visitor's answers *)
Shape(log) == [k \in 1..Len(log) |-> [start |-> log[k].start, end |-> log[k].end,
                                       info |-> log[k].info]]

(* the OPEN callbacks of log that were answered -1 *)
Skipped(log) == {k \in 1..Len(log) : OPEN \in log[k].info /\ log[k].ret = -1}

(* the callbacks of log that are not strictly inside one of the ranges R *)
Outside(log, R) ==
  LET out(c) == \A r \in R : ~(r[1] < c.start /\ c.end < r[2])
  IN SelectSeq(log, out)

(* C3: with opts = 0 and a well-formed input, the callback after an OPEN *)
(* callback answered -1 is the CLOSE callback of the same container     *)
(* (same kind, at the bracket that ends the value opened there), so     *)
(* nothing inside is delivered; and when the visitor never answers 0    *)
(* the parse completes and delivers, outside the skipped containers,    *)
(* exactly the callbacks of the parse that skips nothing.               *)
C3_SkipToClose ==
  (pc = "done" /\ options = {} /\ WellFormed(bytes))
    => /\ \A k \in Skipped(calls) :
            /\ k < Len(calls)
            /\ CLOSE \in calls[k + 1].info
            /\ calls[k + 1].info \cap {OBJECT, ARRAY} = calls[k].info \cap {OBJECT, ARRAY}
            /\ calls[k + 1].start = calls[k + 1].end - 1
            /\ GValue(bytes, {calls[k].start}) = {calls[k + 1].end}
       /\ visitor.stopAt = 0
            => /\ ret = Len(bytes)
               /\ Shape(calls) =
                    Shape(Outside(parse(bytes, {}, Continue).calls,
                                  {<<calls[k].start, calls[k + 1].end>> :
                                     k \in Skipped(calls)}))

(* a container that is not empty has been skipped inside a well-formed input *)
C3_Witness ==
  /\ pc = "done" /\ options = {} /\ WellFormed(bytes) /\ visitor.stopAt = 0
  /\ \E k \in Skipped(calls) :
       /\ 1 < k /\ k + 1 < Len(calls)
       /\ calls[k].end < calls[k + 1].start

(* an element has been delivered after a skipped container *)
C3_WitnessSibling ==
  /\ pc = "done" /\ options = {} /\ WellFormed(bytes) /\ visitor.stopAt = 0
  /\ \E k \in Skipped(calls) : k + 3 <= Len(calls) /\ COMMA \in calls[k + 2].info

(* ---- stops and errors ---- *)
(* the offset at which the parser stands when the callback c is answered 0: *)
(* an OPEN or COMMA callback is made before the byte is passed, the others   *)
(* after the token                                                           *)
StopOffset(c) == IF c.info \cap {OPEN, COMMA} # {} THEN c.start ELSE c.end

(* C4: a callback answered 0, and the point where a grammar error is    *)
(* detected, is the last event of the call: no callback follows it, not *)
(* even the CLOSE of an enclosing container, and parse returns the      *)
(* offset of the stop, or the negated offset of the error, as it was at *)
(* that point.                                                          *)
C4_StopIsFinal ==
  pc = "done"
    => \A k \in 1..Len(trace) :
         /\ trace[k].ret = 0 => k = Len(trace)
         /\ (ERROR \in trace[k].info) => ret = trace[k].start * (-1)
         /\ (ERROR \notin trace[k].info /\ trace[k].ret = 0)
              => ret = StopOffset(trace[k])

(* the visitor has stopped the parse at a callback inside a container *)
C4_Witness ==
  /\ pc = "done" /\ Len(trace) >= 3
  /\ OPEN \in trace[1].info /\ trace[1].ret = 1
  /\ trace[Len(trace)].ret = 0
  /\ trace[Len(trace)].info \cap {ERROR, END} = {}

(* a grammar error has been detected inside a container, after callbacks *)
C4_WitnessError ==
  /\ pc = "done" /\ Len(trace) >= 3
  /\ OPEN \in trace[1].info /\ trace[1].ret = 1
  /\ ERROR \in trace[Len(trace)].info /\ ret < 0

(* the callbacks of log that were answered 0 *)
Stopped(log) == {k \in 1..Len(log) : log[k].ret = 0}

(* C5: whenever the visitor stops the parse by answering 0, parse returns *)
(* a strictly positive value; parse returns zero or a negative value only *)
(* when an error occurred.                                                *)
C5_StopPositive ==
  pc = "done"
    => /\ Stopped(calls) # {} => ret > 0
       /\ ret <= 0 => \E k \in 1..Len(trace) : ERROR \in trace[k].info

(* what holds instead: a stop returns a value >= 0, and 0 exactly when the *)
(* callback answered 0 is the OPEN of a container at offset 0              *)
C5_StopNotNegative ==
  pc = "done"
    => \A k \in Stopped(calls) :
         /\ ret >= 0
         /\ ret = 0 <=> (OPEN \in calls[k].info /\ calls[k].start = 0)

(* the visitor has answered 0 on the OPEN of a document that starts with its *)
(* bracket, and parse has returned 0 without any error                       *)
C5_Witness ==
  /\ pc = "done" /\ Stopped(calls) # {} /\ ret = 0
  /\ \A k \in 1..Len(trace) : ERROR \notin trace[k].info

(* C6 as stated: whenever the visitor stops the parse by answering 0, the *)
(* value parse returns is strictly less than bytes.len(); a value equal   *)
(* to bytes.len() occurs only when no callback was answered 0.            *)
C6_StopBelowLen ==
  pc = "done"
    => /\ Stopped(calls) # {} => ret < Len(bytes)
       /\ ret = Len(bytes) => Stopped(calls) = {}

(* C6, amended: whenever the visitor stops the parse by answering 0, the  *)
(* value parse returns is at most bytes.len(), and it equals bytes.len()  *)
(* exactly when the callback answered 0 is not an OPEN or COMMA callback  *)
(* and its range ends at bytes.len().                                     *)
C6_StopAtMostLen ==
  pc = "done"
    => \A k \in Stopped(calls) :
         /\ ret <= Len(bytes)
         /\ ret = Len(bytes)
              <=> (calls[k].end = Len(bytes) /\ calls[k].info \cap {OPEN, COMMA} = {})

(* the visitor has answered 0 on the last callback of a complete document, *)
(* and parse has returned bytes.len()                                      *)
C6_Witness ==
  /\ pc = "done" /\ Stopped(calls) # {} /\ ret = Len(bytes)
  /\ END \in calls[Len(calls)].info /\ Len(calls) >= 2

(* ---- answers other than 0 and 1 ---- *)
(* the visitor f with every answer that is not 0 or -1-on-OPEN replaced by 1 *)
Plain(f) == [f EXCEPT !.open = 1, !.other = 1]

(* C7: for every input and both option values, a visitor that answers -1 *)
(* on callbacks without OPEN and a value other than 0, 1 and -1 on OPEN   *)
(* callbacks gets the same callbacks (ranges and info) and the same       *)
(* return value as the visitor that answers 1 in their place.             *)
C7_MinusOneIsContinue ==
  pc = "done"
    => /\ Shape(calls) = Shape(parse(bytes, options, Plain(visitor)).calls)
       /\ ret = parse(bytes, options, Plain(visitor)).ret

(* -1 has been answered on a key, a colon, a scalar and a CLOSE, 2 on an *)
(* OPEN, and the parse has completed                                     *)
C7_Witness ==
  /\ pc = "done" /\ visitor.other = -1 /\ visitor.open = 2
  /\ ret = Len(bytes) /\ Len(calls) >= 5
  /\ \E k \in 1..Len(calls) : KEY \in calls[k].info /\ calls[k].ret = -1
  /\ \E k \in 1..Len(calls) : OPEN \in calls[k].info /\ calls[k].ret = 2
  /\ calls[Len(calls)].ret = -1

(* -1 has been answered on a comma between two elements *)
C7_WitnessComma ==
  /\ pc = "done" /\ visitor.other = -1
  /\ \E k \in 1..(Len(calls) - 1) : COMMA \in calls[k].info /\ calls[k].ret = -1

(* C8: with opts = 0, every visitor that never answers 0 obtains the   *)
(* value that the visitor answering 1 everywhere obtains, whatever it  *)
(* skips; an error inside a skipped container is reported at the same  *)
(* offset.                                                             *)
C8_SkipStillValidates ==
  (pc = "done" /\ options = {} /\ visitor.stopAt = 0)
    => ret = parse(bytes, {}, Continue).ret

(* an error inside a skipped container has been reported *)
C8_Witness ==
  /\ pc = "done" /\ options = {} /\ visitor.stopAt = 0
  /\ Len(calls) \in Skipped(calls)
  /\ ret < 0 /\ ret * (-1) > calls[Len(calls)].end

(* ---- bracket counting ---- *)
(* The end of the container whose body starts at p, by counting brackets: *)
(* depth d outside quoted runs, inq inside one, bs the backslashes just   *)
(* before p in the run; Len(json) + 1 when the depth never returns to 0.  *)
RECURSIVE Balanced(_, _, _, _, _)
Balanced(json, p, d, inq, bs) ==
  IF p >= Len(json) THEN Len(json) + 1
  ELSE IF inq
       THEN IF At(json, p) = chQuote
            THEN Balanced(json, p + 1, d, bs % 2 = 1, 0)
            ELSE Balanced(json, p + 1, d, TRUE,
                          IF At(json, p) = chBackslash THEN bs + 1 ELSE 0)
  ELSE IF At(json, p) = chQuote THEN Balanced(json, p + 1, d, TRUE, 0)
  ELSE IF At(json, p) \in {chLBrace, chLBracket}
       THEN Balanced(json, p + 1, d + 1, FALSE, 0)
  ELSE IF At(json, p) \in {chRBrace, chRBracket}
       THEN IF d = 1 THEN p + 1 ELSE Balanced(json, p + 1, d - 1, FALSE, 0)
  ELSE Balanced(json, p + 1, d, FALSE, 0)

(* C9: with opts = UNCHECKED, when an OPEN callback is answered -1 and   *)
(* the bytes after the bracket hold a closing bracket that brings the    *)
(* depth back to zero, the next callback is the CLOSE of that container  *)
(* at that bracket and no error is reported for what lies in between.    *)
C9_SkipByCounting ==
  (pc = "done" /\ UNCHECKED \in options)
    => \A k \in Skipped(calls) :
         Balanced(bytes, calls[k].end, 1, FALSE, 0) <= Len(bytes)
           => /\ k < Len(trace)
              /\ CLOSE \in trace[k + 1].info
              /\ trace[k + 1].info \cap {OBJECT, ARRAY} = calls[k].info \cap {OBJECT, ARRAY}
              /\ trace[k + 1].end = Balanced(bytes, calls[k].end, 1, FALSE, 0)
              /\ trace[k + 1].start = trace[k + 1].end - 1

(* a skipped container with malformed content has been passed, and the *)
(* parse has completed, where opts = 0 reports an error                *)
C9_Witness ==
  /\ pc = "done" /\ UNCHECKED \in options /\ visitor.stopAt = 0
  /\ \E k \in Skipped(calls) :
       /\ Balanced(bytes, calls[k].end, 1, FALSE, 0) <= Len(bytes)
       /\ calls[k].end < calls[k + 1].start
  /\ ret = Len(bytes)
  /\ parse(bytes, {}, visitor).ret < 0

(* C10: for every well-formed input and every visitor, parse with      *)
(* opts = UNCHECKED delivers the same callbacks (start, end, info) and *)
(* returns the same value as parse with opts = 0.                      *)
C10_UncheckedSameOnWellFormed ==
  (pc = "done" /\ WellFormed(bytes))
    => /\ Shape(calls) = Shape(parse(bytes, BitXor(options, {UNCHECKED}), visitor).calls)
       /\ ret = parse(bytes, BitXor(options, {UNCHECKED}), visitor).ret

(* a container holding a string with an escaped quote and a bracket in it *)
(* has been skipped by counting, before the end of the input              *)
C10_Witness ==
  /\ pc = "done" /\ WellFormed(bytes) /\ UNCHECKED \in options
  /\ \E k \in Skipped(calls) :
       /\ k < Len(calls) /\ calls[k + 1].end < Len(bytes)
       /\ \E p \in calls[k].end..(calls[k + 1].start - 3) :
            /\ At(bytes, p) = chBackslash /\ At(bytes, p + 1) = chQuote
            /\ At(bytes, p + 2) = chRBracket

(* ---- nesting of OPEN and CLOSE ---- *)
(* log read from its k-th callback with the stack of the OPEN callbacks not  *)
(* yet closed: every CLOSE closes the OPEN on top of the stack, has its kind *)
(* and stands at the end of the value opened there, and no OPEN is left      *)
RECURSIVE Nested(_, _, _, _)
Nested(json, log, k, stack) ==
  IF k > Len(log) THEN stack = <<>>
  ELSE IF OPEN \in log[k].info THEN Nested(json, log, k + 1, <<log[k]>> \o stack)
  ELSE IF CLOSE \in log[k].info
       THEN /\ stack # <<>>
            /\ log[k].info \cap {OBJECT, ARRAY} = Head(stack).info \cap {OBJECT, ARRAY}
            /\ GValue(json, {Head(stack).start}) = {log[k].end}
            /\ Nested(json, log, k + 1, Tail(stack))
  ELSE Nested(json, log, k + 1, stack)

(* the offsets of the opening brackets of json outside the strings seen in log *)
Openings(json, log) ==
  {p \in 0..(Len(json) - 1) :
     /\ At(json, p) \in {chLBrace, chLBracket}
     /\ \A k \in Covering(log, p) : STRING_ \notin log[k].info}

(* C11: for a well-formed input and a visitor that always answers 1, the *)
(* OPEN and CLOSE callbacks are properly nested: every CLOSE matches the *)
(* most recent unmatched OPEN and has its kind, CLOSEs never outnumber   *)
(* OPENs, all OPENs are matched at the end, and each container of the    *)
(* input has exactly one OPEN and exactly one CLOSE.                     *)
C11_ProperNesting ==
  (pc = "done" /\ visitor = Continue /\ WellFormed(bytes))
    => /\ Nested(bytes, calls, 1, <<>>)
       /\ \A p \in Openings(bytes, calls) :
            /\ Cardinality({k \in 1..Len(calls) :
                              OPEN \in calls[k].info /\ calls[k].start = p}) = 1
            /\ Cardinality({k \in 1..Len(calls) :
                              CLOSE \in calls[k].info
                              /\ GValue(bytes, {p}) = {calls[k].end}}) = 1
       /\ \A k \in 1..Len(calls) :
            OPEN \in calls[k].info => calls[k].start \in Openings(bytes, calls)

(* an object inside an array has been opened and closed *)
C11_Witness ==
  /\ pc = "done" /\ visitor = Continue /\ WellFormed(bytes)
  /\ Len(calls) >= 4
  /\ {ARRAY, OPEN} \subseteq calls[1].info
  /\ \E k \in 2..(Len(calls) - 2) :
       {OBJECT, OPEN} \subseteq calls[k].info /\ {OBJECT, CLOSE} \subseteq calls[k + 1].info

(* ---- the ranges of OPEN and CLOSE ---- *)
(* the bracket byte that a callback with OPEN or CLOSE announces *)
Bracket(c) ==
  IF OPEN \in c.info THEN (IF OBJECT \in c.info THEN chLBrace ELSE chLBracket)
  ELSE (IF OBJECT \in c.info THEN chRBrace ELSE chRBracket)

OneBracket(json, c) == c.end = c.start + 1 /\ At(json, c.start) = Bracket(c)

(* the CLOSE callbacks of log delivered right after an OPEN answered -1 *)
AfterSkip(log) == {k + 1 : k \in {j \in Skipped(log) : j < Len(log)}}

(* C12: for every input, both option values and every visitor, a callback *)
(* with OPEN or CLOSE has a range of exactly one byte, and that byte is    *)
(* the bracket it announces, also for the CLOSE delivered after a subtree  *)
(* skipped under UNCHECKED.                                                *)
C12_RangeIsBracket ==
  pc = "done"
    => \A k \in 1..Len(calls) :
         calls[k].info \cap {OPEN, CLOSE} # {} => OneBracket(bytes, calls[k])

(* what holds instead: the range is one byte for every OPEN and CLOSE, and *)
(* the byte is the announced bracket except for the CLOSE delivered after  *)
(* a subtree skipped under UNCHECKED                                       *)
C12_BracketUnlessSquashed ==
  pc = "done"
    => \A k \in 1..Len(calls) :
         calls[k].info \cap {OPEN, CLOSE} # {}
           => /\ calls[k].end = calls[k].start + 1
              /\ (UNCHECKED \notin options \/ k \notin AfterSkip(calls))
                   => OneBracket(bytes, calls[k])

(* under UNCHECKED the CLOSE of a skipped array that is never closed has *)
(* been delivered on a byte that is not a closing bracket                *)
C12_Witness ==
  /\ pc = "done" /\ UNCHECKED \in options
  /\ \E k \in AfterSkip(calls) :
       /\ {ARRAY, CLOSE} \subseteq calls[k].info
       /\ At(bytes, calls[k].start) \notin {chRBrace, chRBracket}

(* ---- position flags ---- *)
(* the number of containers open when the k-th callback of log is made *)
Depth(log, k) ==
  Cardinality({j \in 1..(k - 1) : OPEN \in log[j].info})
  - Cardinality({j \in 1..(k - 1) : CLOSE \in log[j].info})

(* C13: START and END mark only the outermost element: a top-level       *)
(* scalar carries both; a top-level container carries START and not END  *)
(* on its OPEN, END and not START on its CLOSE; no other callback        *)
(* carries START or END.                                                 *)
C13_StartEndOutermost ==
  pc = "done"
    => \A k \in 1..Len(calls) :
         /\ START \in calls[k].info <=> k = 1
         /\ END \in calls[k].info
              <=> \/ k = 1 /\ OPEN \notin calls[k].info
                  \/ CLOSE \in calls[k].info /\ Depth(calls, k) = 1

(* a top-level container holding a nested container has been parsed to its end *)
C13_Witness ==
  /\ pc = "done" /\ Len(calls) >= 4
  /\ {START, OPEN} \subseteq calls[1].info
  /\ {END, CLOSE} \subseteq calls[Len(calls)].info
  /\ \E k \in 2..(Len(calls) - 1) : CLOSE \in calls[k].info

(* a top-level scalar has been parsed *)
C13_WitnessScalar ==
  /\ pc = "done" /\ Len(calls) = 1 /\ {START, END, NUMBER} \subseteq calls[1].info

(* the callbacks of the top-level element: the first one, and the CLOSE made *)
(* when one container is open                                                *)
TopLevel(log, k) == k = 1 \/ (CLOSE \in log[k].info /\ Depth(log, k) = 1)

(* C14 as stated: VALUE is set on every scalar and every container OPEN   *)
(* that is a member value or an array element, and never on a container   *)
(* CLOSE, a key, a colon, a comma or the top-level element.               *)
C14_ValueNotOnClose ==
  pc = "done"
    => \A k \in 1..Len(calls) :
         VALUE \in calls[k].info
           <=> /\ calls[k].info \cap {KEY, COLON, COMMA, CLOSE} = {}
               /\ ~TopLevel(calls, k)

(* C14, amended: VALUE is set on every scalar, every container OPEN and  *)
(* every container CLOSE that belongs to a member value or an array      *)
(* element, and never on a key, a colon, a comma or a callback of the    *)
(* top-level element.                                                    *)
C14_ValueOnNested ==
  pc = "done"
    => \A k \in 1..Len(calls) :
         VALUE \in calls[k].info
           <=> /\ calls[k].info \cap {KEY, COLON, COMMA} = {}
               /\ ~TopLevel(calls, k)

(* the CLOSE of a nested array has been delivered with VALUE, after the *)
(* OPEN of that array and an element in it                              *)
C14_Witness ==
  /\ pc = "done"
  /\ \E k \in 3..Len(calls) :
       /\ {ARRAY, CLOSE, VALUE} \subseteq calls[k].info
       /\ {NUMBER, VALUE} \subseteq calls[k - 1].info
       /\ {ARRAY, OPEN, VALUE} \subseteq calls[k - 2].info

(* ---- the kind and modifier flags ---- *)
Scalars == {STRING_, NUMBER, TRUE_, FALSE_, NULL}

(* C15: every callback's info identifies exactly one element kind: a     *)
(* scalar has exactly one of STRING, NUMBER, TRUE, FALSE, NULL and none  *)
(* of OBJECT, ARRAY, OPEN, CLOSE, COMMA, COLON; a container callback has *)
(* exactly one of OBJECT, ARRAY and exactly one of OPEN, CLOSE; a comma  *)
(* callback's info is COMMA and a colon callback's info is COLON; KEY is *)
(* set only with STRING and never with VALUE, START or END.              *)
C15_OneKind ==
  pc = "done"
    => \A k \in 1..Len(calls) :
         LET info == calls[k].info
         IN /\ \/ /\ Cardinality(info \cap Scalars) = 1
                  /\ info \cap {OBJECT, ARRAY, OPEN, CLOSE, COMMA, COLON} = {}
               \/ /\ Cardinality(info \cap {OBJECT, ARRAY}) = 1
                  /\ Cardinality(info \cap {OPEN, CLOSE}) = 1
                  /\ info \cap (Scalars \cup {COMMA, COLON}) = {}
               \/ info = {COMMA}
               \/ info = {COLON}
            /\ KEY \in info => STRING_ \in info /\ info \cap {VALUE, START, END} = {}

(* a key, its colon and a member value have been delivered *)
C15_Witness ==
  /\ pc = "done" /\ Len(calls) >= 5
  /\ {OBJECT, OPEN} \subseteq calls[1].info
  /\ KEY \in calls[2].info /\ calls[3].info = {COLON} /\ VALUE \in calls[4].info

(* a keyword has been delivered *)
C15_WitnessKeyword ==
  /\ pc = "done" /\ Len(calls) = 1 /\ calls[1].info \cap {TRUE_, FALSE_, NULL} # {}

(* the bytes of the range of the callback c *)
Literal(json, c) == {At(json, p) : p \in c.start..(c.end - 1)}

(* C16: on a STRING callback ESCAPED is set iff the range holds a        *)
(* backslash; on a NUMBER callback SIGN is set iff the literal begins    *)
(* with '-', DOT iff it holds '.', E iff it holds 'e' or 'E'; ESCAPED    *)
(* never appears without STRING, nor SIGN, DOT, E without NUMBER.        *)
C16_Modifiers ==
  pc = "done"
    => \A k \in 1..Len(calls) :
         LET c == calls[k]
         IN /\ ESCAPED \in c.info
                 <=> (STRING_ \in c.info /\ chBackslash \in Literal(bytes, c))
            /\ SIGN \in c.info <=> (NUMBER \in c.info /\ At(bytes, c.start) = chMinus)
            /\ DOT \in c.info <=> (NUMBER \in c.info /\ chDot \in Literal(bytes, c))
            /\ E \in c.info
                 <=> (NUMBER \in c.info /\ Literal(bytes, c) \cap {chLowE, chUpE} # {})

(* a string with an escape has been delivered *)
C16_Witness ==
  /\ pc = "done" /\ ret = Len(bytes)
  /\ \E k \in 1..Len(calls) :
       /\ {STRING_, ESCAPED} \subseteq calls[k].info
       /\ chLowU \in Literal(bytes, calls[k])

(* a negative number with a fraction, and a number with an exponent, have *)
(* been delivered                                                         *)
C16_WitnessNumber ==
  /\ pc = "done" /\ ret = Len(bytes) /\ Len(calls) = 1
  /\ \/ {NUMBER, SIGN, DOT} \subseteq calls[1].info
     \/ {NUMBER, E} \subseteq calls[1].info

(* ---- minification ---- *)
Infos(log) == [k \in 1..Len(log) |-> log[k].info]

(* C17: for a well-formed input d whose callback ranges concatenate to m, *)
(* parse(m, 0, always-1) returns len(m), delivers as many callbacks with  *)
(* the same sequence of info as the parse of d, and the concatenation of  *)
(* its callback ranges is m.                                              *)
C17_MinifyRoundTrip ==
  (pc = "done" /\ options = {} /\ visitor = Continue /\ WellFormed(bytes))
    => LET m == Slices(bytes, calls)
           r == parse(m, {}, Continue)
       IN /\ r.ret = Len(m)
          /\ Len(r.calls) = Len(calls)
          /\ Infos(r.calls) = Infos(calls)
          /\ Slices(m, r.calls) = m

(* a well-formed container with whitespace around its tokens has been parsed, *)
(* so that its minified form is shorter than the input                        *)
C17_Witness ==
  /\ pc = "done" /\ options = {} /\ visitor = Continue /\ WellFormed(bytes)
  /\ Len(calls) >= 3
  /\ Len(Slices(bytes, calls)) + 2 <= Len(bytes)
  /\ parse(Slices(bytes, calls), {}, Continue).ret = Len(bytes) - 2

(* ---- errors in strings ---- *)
(* The offending byte of the string whose content starts at p: a control    *)
(* byte, the byte after the backslash of an unknown escape, the first byte  *)
(* that is not a hex digit among the four after \u, Len(json) when the      *)
(* input ends inside the string or an escape; -1 when the string is closed. *)
RECURSIVE Fault(_, _)
Fault(json, p) ==
  IF p >= Len(json) THEN Len(json)
  ELSE IF At(json, p) = chQuote THEN -1
  ELSE IF At(json, p) < 32 THEN p
  ELSE IF At(json, p) # chBackslash THEN Fault(json, p + 1)
  ELSE IF p + 1 >= Len(json) THEN Len(json)
  ELSE IF At(json, p + 1) \in {chQuote, chBackslash, chSlash, chLowB, chLowF, chLowN,
                               chLowR, chLowT}
       THEN Fault(json, p + 2)
  ELSE IF At(json, p + 1) # chLowU THEN p + 1
  ELSE LET bad == {j \in (p + 2)..(p + 5) : j >= Len(json) \/ At(json, j) \notin GHex}
       IN IF bad = {} THEN Fault(json, p + 6)
          ELSE IF \E j \in bad : j < Len(json)
                    /\ \A h \in bad : j <= h
               THEN CHOOSE j \in bad : \A h \in bad : j <= h
               ELSE Len(json)

(* the offset of the opening quote of the string that opens the input, as a *)
(* value (offset 0) or as the first key of an object (offset 1); -1 if none *)
FirstString(json) ==
  IF Len(json) >= 1 /\ At(json, 0) = chQuote THEN 0
  ELSE IF Len(json) >= 2 /\ At(json, 0) = chLBrace /\ At(json, 1) = chQuote THEN 1
  ELSE -1

(* C18: when the scan of a string (value or key) fails, parse returns   *)
(* minus the offset of the offending byte: the control byte, the byte   *)
(* after the backslash of an unknown escape, the first non-hex byte     *)
(* after \u, or bytes.len() when the input ends inside the string or an *)
(* escape.                                                              *)
C18_StringErrorOffset ==
  (pc = "done" /\ FirstString(bytes) >= 0
     /\ Fault(bytes, FirstString(bytes) + 1) >= 0)
    => ret = Fault(bytes, FirstString(bytes) + 1) * (-1)

(* an unknown escape in a key has been reported one past its backslash *)
C18_Witness ==
  /\ pc = "done" /\ FirstString(bytes) = 1 /\ ret < -3
  /\ ret * (-1) < Len(bytes)
  /\ At(bytes, ret * (-1) - 1) = chBackslash
  /\ At(bytes, ret * (-1)) = ch9

(* a byte that is not a hex digit has been reported after \u and two digits *)
C18_WitnessHex ==
  /\ pc = "done" /\ FirstString(bytes) = 0 /\ ret < 0
  /\ ret * (-1) < Len(bytes)
  /\ ret * (-1) >= 5
  /\ At(bytes, ret * (-1) - 4) = chLowU /\ At(bytes, ret * (-1) - 5) = chBackslash

(* the input has ended inside an escape *)
C18_WitnessEnd ==
  /\ pc = "done" /\ FirstString(bytes) = 0 /\ ret = Len(bytes) * (-1)
  /\ Len(bytes) >= 3 /\ At(bytes, Len(bytes) - 1) = chBackslash
  /\ At(bytes, Len(bytes) - 2) # chBackslash

(* ---- the order of the callbacks in a container ---- *)
(* the kind of the container that is open, innermost, when the k-th callback *)
(* of log is made: the OPEN before k that is not closed before k; n counts   *)
(* the CLOSE callbacks passed on the way back                                *)
RECURSIVE Enclosing(_, _, _)
Enclosing(log, j, n) ==
  IF j < 1 THEN {}
  ELSE IF CLOSE \in log[j].info THEN Enclosing(log, j - 1, n + 1)
  ELSE IF OPEN \in log[j].info
       THEN IF n = 0 THEN log[j].info \cap {OBJECT, ARRAY}
            ELSE Enclosing(log, j - 1, n - 1)
  ELSE Enclosing(log, j - 1, n)

(* a member value or an element: a scalar or an OPEN, with VALUE *)
IsValue(c) ==
  /\ VALUE \in c.info
  /\ c.info \cap (Scalars \cup {OPEN}) # {}
  /\ c.info \cap {KEY, CLOSE} = {}

(* C19: a KEY callback is immediately followed by a COLON callback, a   *)
(* COLON callback by the callback of the member value, a COMMA callback *)
(* by a KEY callback inside an object and by the callback of an element *)
(* inside an array, never by a CLOSE; a KEY, COLON or COMMA callback is *)
(* the last one only when the parse ends there by a stop or an error.   *)
C19_MemberOrder ==
  pc = "done"
    => \A k \in 1..Len(calls) :
         IF k < Len(calls)
         THEN /\ KEY \in calls[k].info => calls[k + 1].info = {COLON}
              /\ COLON \in calls[k].info => IsValue(calls[k + 1])
              /\ COMMA \in calls[k].info
                   => /\ CLOSE \notin calls[k + 1].info
                      /\ Enclosing(calls, k, 0) = {OBJECT} => KEY \in calls[k + 1].info
                      /\ Enclosing(calls, k, 0) = {ARRAY} => IsValue(calls[k + 1])
                      /\ Enclosing(calls, k, 0) # {}
         ELSE calls[k].info \cap {KEY, COLON, COMMA} # {}
                => calls[k].ret = 0 \/ ERROR \in trace[Len(trace)].info

(* an object with two members has been parsed to its end *)
C19_Witness ==
  /\ pc = "done" /\ options = {} /\ visitor.skipAt = {} /\ ret = Len(bytes)
  /\ \E k \in 1..(Len(calls) - 4) :
       /\ calls[k].info = {COMMA}
       /\ KEY \in calls[k + 1].info
       /\ calls[k + 2].info = {COLON}
       /\ IsValue(calls[k + 3])

(* an array with two elements has been parsed to its end *)
C19_WitnessArray ==
  /\ pc = "done" /\ options = {} /\ visitor.skipAt = {} /\ ret = Len(bytes)
  /\ \E k \in 1..(Len(calls) - 2) :
       /\ calls[k].info = {COMMA} /\ Enclosing(calls, k, 0) = {ARRAY}
       /\ IsValue(calls[k + 1])

(* C20: when a callback with range [start, end) is answered 0, parse    *)
(* returns start if the callback is a container OPEN or a COMMA, and    *)
(* end if it is a scalar value, a KEY string, a COLON or a container    *)
(* CLOSE.                                                               *)
C20_StopValueByKind ==
  pc = "done"
    => \A k \in Stopped(calls) :
         /\ (OPEN \in calls[k].info \/ calls[k].info = {COMMA}) => ret = calls[k].start
         /\ (calls[k].info \cap (Scalars \cup {COLON, CLOSE}) # {}) => ret = calls[k].end
         /\ calls[k].info \cap (Scalars \cup {OPEN, CLOSE, COMMA, COLON}) # {}

(* the visitor has answered 0 on the comma between two members of an object *)
C20_Witness ==
  /\ pc = "done"
  /\ \E k \in Stopped(calls) :
       /\ calls[k].info = {COMMA} /\ Enclosing(calls, k, 0) = {OBJECT}
       /\ ret = calls[k].start /\ At(bytes, ret) = chComma

(* the visitor has answered 0 on a key, and on a colon *)
C20_WitnessKey ==
  /\ pc = "done"
  /\ \E k \in Stopped(calls) :
       /\ calls[k].info \cap {KEY, COLON} # {}
       /\ ret = calls[k].end

(* ---- termination ---- *)
(* the three ways a call ends *)
Failed == trace # <<>> /\ ERROR \in trace[Len(trace)].info

Traversed == Stopped(calls) = {} /\ ~Failed /\ ret = Len(bytes)

StoppedByVisitor ==
  /\ Stopped(calls) = {Len(calls)} /\ ~Failed
  /\ ret \in {calls[Len(calls)].start, calls[Len(calls)].end}

FailedAt ==
  /\ Stopped(calls) = {} /\ Failed
  /\ ret = trace[Len(trace)].start * (-1) /\ ret * (-1) <= Len(bytes)

(* the scan never goes back: no event starts or ends before the one before it *)
Advancing ==
  \A k \in 1..(Len(trace) - 1) :
    trace[k].start <= trace[k + 1].start /\ trace[k].end <= trace[k + 1].end

(* C21: every call of parse ends, for every input, both option values   *)
(* and every visitor: a call that is about to be made has a result, a   *)
(* value between -bytes.len() and bytes.len(), and the result of a call *)
(* is exactly one of three outcomes, the document fully traversed, a    *)
(* visitor stop, or an error; the offsets of the events of the call     *)
(* never decrease.                                                      *)
C21_Terminates ==
  /\ pc = "ready"
       => parse(bytes, options, visitor).ret \in (0 - Len(bytes))..Len(bytes)
  /\ pc = "done" =>
       /\ Cardinality({o \in {"traversed", "stopped", "failed"} :
                         \/ o = "traversed" /\ Traversed
                         \/ o = "stopped" /\ StoppedByVisitor
                         \/ o = "failed" /\ FailedAt}) = 1
       /\ Advancing

(* a call that skipped a container by counting brackets has traversed the *)
(* document                                                               *)
C21_Witness ==
  /\ pc = "done" /\ UNCHECKED \in options /\ Traversed
  /\ \E k \in Skipped(calls) : calls[k].end + 2 < calls[k + 1].start

(* a call has ended by a stop, and a call by an error after callbacks *)
C21_WitnessStop == pc = "done" /\ StoppedByVisitor /\ Len(calls) >= 3

C21_WitnessError == pc = "done" /\ FailedAt /\ Len(calls) >= 3

(* ---- containers that are never closed ---- *)
(* the OPEN callbacks of log answered -1 whose container is not closed by *)
(* bracket counting before the end of json                                *)
Unclosed(json, log) ==
  {k \in Skipped(log) : Balanced(json, log[k].end, 1, FALSE, 0) > Len(json)}

(* C22: with opts = UNCHECKED, an input that ends before a skipped      *)
(* container is closed is reported as an error: parse returns a value   *)
(* <= 0 and delivers no CLOSE callback for that container, as it does   *)
(* for the same input with opts = 0.                                    *)
C22_UnclosedSkipIsError ==
  (pc = "done" /\ UNCHECKED \in options /\ visitor.stopAt = 0)
    => \A k \in Unclosed(bytes, calls) :
         /\ ret <= 0
         /\ k = Len(calls)
         /\ ret = parse(bytes, {}, visitor).ret

(* what holds instead: parse delivers the CLOSE of the container on the   *)
(* last byte of the input, and returns bytes.len() when the container is  *)
(* the top-level element, minus bytes.len() when it is nested, where      *)
(* opts = 0 reports an error                                              *)
C22_UnclosedSkipSucceeds ==
  (pc = "done" /\ UNCHECKED \in options /\ visitor.stopAt = 0)
    => \A k \in Unclosed(bytes, calls) :
         /\ ret = IF k = 1 THEN Len(bytes) ELSE Len(bytes) * (-1)
         /\ k + 1 = Len(calls)
         /\ CLOSE \in calls[k + 1].info
         /\ calls[k + 1].start = Len(bytes) - 1 /\ calls[k + 1].end = Len(bytes)
         /\ parse(bytes, {}, visitor).ret < 0

(* under UNCHECKED a skipped container with an element and no closing   *)
(* bracket has been passed with success, and its CLOSE delivered        *)
C22_Witness ==
  /\ pc = "done" /\ UNCHECKED \in options /\ visitor.stopAt = 0
  /\ \E k \in Unclosed(bytes, calls) :
       /\ calls[k].end < Len(bytes)
       /\ ret = Len(bytes)
       /\ k < Len(calls) /\ CLOSE \in calls[k + 1].info

(* ---- offsets within the input ---- *)

(* the offsets at which vany starts a scanner: just after an opening quote, *)
(* just after the first byte of a number, just after an opening bracket     *)
AfterQuote(json) == {i \in 1..Len(json) : At(json, i - 1) = chQuote}

AfterNumberByte(json) ==
  {i \in 1..Len(json) : At(json, i - 1) = chMinus \/ isnum(At(json, i - 1))}

AfterBracket(json) == {i \in 1..Len(json) : At(json, i - 1) \in {chLBracket, chLBrace}}

(* the quotes that squash finds in a string starting at s with a backslash *)
(* just before them                                                        *)
EscapedQuotes(json, s) ==
  {squash_quote(json, i, 0).i : i \in {i \in s..Len(json) :
      /\ squash_quote(json, i, 0).found
      /\ At(json, squash_quote(json, i, 0).i - 1) = chBackslash}}

(* C23: on every input, under both option values and every visitor, no     *)
(* read of the buffer leaves [0, len): the bound check of an unrolled loop  *)
(* covers all the reads of its round (eight, or four in a fraction), and    *)
(* every scanner, started where vany starts it, is defined (each of its     *)
(* reads applies the buffer inside its domain) and ends between its start   *)
(* and len. No offset is taken below 0: a quote that squash finds after a   *)
(* backslash is at least two bytes into the input and one byte into its     *)
(* string, the backward count never counts a byte before the string, and    *)
(* every callback range, the i - 1 of CLOSE and COLON and the start of a    *)
(* number included, has 0 <= start < end <= len. An error is reported at    *)
(* an offset of 0..len.                                                    *)
C23_InBounds ==
  /\ \A i \in 0..Len(bytes) :
       /\ unrolled8(bytes, i) => \A d \in 0..7 : i + d < Len(bytes)
       /\ unrolled4(bytes, i) => \A d \in 0..3 : i + d < Len(bytes)
  /\ \A i \in AfterQuote(bytes) : vstring(bytes, i).i \in i..Len(bytes)
  /\ \A i \in AfterNumberByte(bytes) : vnumber(bytes, i).i \in i..Len(bytes)
  /\ \A i \in AfterBracket(bytes) : squash(bytes, i) \in i..Len(bytes)
  /\ \A s \in AfterQuote(bytes) : \A q \in EscapedQuotes(bytes, s) :
       /\ q - 2 >= s - 1
       /\ s - 1 >= 0
       /\ squash_backslashes(bytes, q - 2, s, 0) \in 0..(q - 1 - s)
  /\ \A k \in 1..Len(calls) :
       0 <= calls[k].start /\ calls[k].start < calls[k].end /\ calls[k].end <= Len(bytes)
  /\ \A k \in 1..Len(trace) : trace[k].start \in 0..Len(bytes)

(* a skipped array of an input that is not checked, with a string in it    *)
(* that squash reads through a whole round of eight before it finds a      *)
(* quote after two backslashes, and counts one of them backward            *)
C23_Witness ==
  /\ pc = "done"
  /\ UNCHECKED \in options
  /\ Skipped(calls) # {}
  /\ \E s \in AfterQuote(bytes) : \E q \in EscapedQuotes(bytes, s) :
       /\ unrolled8(bytes, s)
       /\ q >= s + 8
       /\ squash_backslashes(bytes, q - 2, s, 0) = 1

(* a string that vstring reads through a whole round of eight *)
C23_WitnessString ==
  /\ pc = "done"
  /\ \E k \in 1..Len(calls) :
       /\ STRING_ \in calls[k].info
       /\ unrolled8(bytes, calls[k].start + 1)
       /\ calls[k].end > calls[k].start + 9

(* a fraction that vnumber reads through a whole round of four *)
C23_WitnessFraction ==
  /\ pc = "done"
  /\ \E k \in 1..Len(calls) :
       /\ DOT \in calls[k].info
       /\ unrolled4(bytes, calls[k].start + 3)
       /\ calls[k].end > calls[k].start + 7

(* a CLOSE delivered for the first byte of the input *)
C23_WitnessCloseAtZero ==
  /\ pc = "done"
  /\ \E k \in 1..Len(calls) : CLOSE \in calls[k].info /\ calls[k].start = 0

====
